---- MODULE Spec2Model ----
(***************************************************************************)
(* Email assistant backend: the Telegram conversation-correlation engine.  *)
(*                                                                         *)
(*   Spec        the webhook route handler and the registration route of   *)
(*               src/src/routes/telegram.js with their collaborators       *)
(*   SpecLoop    the polling loop of src/src/services/telegram/polling.js  *)
(*   SpecStore   the EmailStateManager of src/src/services/email-state.js  *)
(*   SpecParser  the pure functions of utils/telegramParser.js             *)
(*               (src/unnamed/part_000)                                    *)
(*                                                                         *)
(* JavaScript strings are sequences of one-character strings, objects and  *)
(* Maps are sets of [key, val] entries, undefined is the token Undef.      *)
(***************************************************************************)
EXTENDS Integers, Sequences, FiniteSets, TLC

(* ---------------------------- bounds ----------------------------------- *)
\* number of registrations accepted in one run of the router
MaxRegs == 2
\* update ids the provider hands out are 1..MaxUpdateId
MaxUpdateId == 3
\* number of updates in one fetched batch
MaxBatch == 2
\* number of clock advances in one run of the state manager
MaxTicks == 3
\* length of the question lists given to matchAnswersToQuestions
MaxQuestions == 2
\* largest answer number of the answer sets given to matchAnswersToQuestions
MaxIndex == 3
\* longest message text given to parseNumberedAnswers
MaxTextLen == 5
\* times the clock of the router passes the retention window
MaxElapses == 1
\* characters of a question that is formatted and parsed again
MaxQuestionLen == 2

(* ------------------------- JavaScript values --------------------------- *)
Undef == "undefined"

\* !x for a string-or-undefined value
Falsy(s) == s \in {Undef, ""}

\* chat ids arrive as JSON numbers or JSON strings
Num(n) == [t |-> "num", v |-> n]
Str(n) == [t |-> "str", v |-> n]
NoChat == [t |-> "undef", v |-> 0]

\* !chatId
FalsyId(id) == id.t = "undef" \/ (id.t = "num" /\ id.v = 0)

\* String(chatId)
String(id) == [t |-> "str", v |-> id.v]

(* Map / object with own keys: a set of entries, one per key *)
MapHas(m, k) == \E e \in m : e.key = k
MapGet(m, k) == (CHOOSE e \in m : e.key = k).val
\* Map.set that keeps the entry the key had before
MapSet_KeepsOld(m, k, v) == m \cup {[key |-> k, val |-> v]}
MapSet(m, k, v) == {e \in m : e.key # k} \cup {[key |-> k, val |-> v]}
MapDelete(m, k) == {e \in m : e.key # k}
MapKeys(m) == {e.key : e \in m}

(* ------------------------- telegramParser ------------------------------ *)
DigitChars == {"0", "1", "2", "3", "4", "5", "6", "7", "8", "9"}
WsChars == {" ", "\t", "\n", "\r"}
\* the separator class without the hyphen: [.:\)\s]
SepChars_NoHyphen == {".", ":", ")"} \cup WsChars
\* the separator class [.:\-\)\s]
SepChars == {".", ":", "-", ")"} \cup WsChars
LineTerminators == {"\n", "\r"}

DigitVal(c) ==
  CASE c = "0" -> 0 [] c = "1" -> 1 [] c = "2" -> 2 [] c = "3" -> 3
    [] c = "4" -> 4 [] c = "5" -> 5 [] c = "6" -> 6 [] c = "7" -> 7
    [] c = "8" -> 8 [] c = "9" -> 9

\* parseInt(digits, 10) on a non-empty run of decimal digits
RECURSIVE ParseInt(_)
ParseInt(ds) ==
  IF ds = <<>> THEN 0
  ELSE 10 * ParseInt(SubSeq(ds, 1, Len(ds) - 1)) + DigitVal(ds[Len(ds)])

\* String.prototype.trim
RECURSIVE Trim(_)
Trim(s) ==
  IF s = <<>> THEN s
  ELSE IF s[1] \in WsChars THEN Trim(Tail(s))
  ELSE IF s[Len(s)] \in WsChars THEN Trim(SubSeq(s, 1, Len(s) - 1))
  ELSE s

\* messageText.split('\n')
RECURSIVE SplitLines(_)
SplitLines(s) ==
  IF \A i \in 1..Len(s) : s[i] # "\n" THEN <<s>>
  ELSE LET i == CHOOSE j \in 1..Len(s) :
                  s[j] = "\n" /\ \A k \in 1..(j - 1) : s[k] # "\n"
       IN <<SubSeq(s, 1, i - 1)>> \o SplitLines(SubSeq(s, i + 1, Len(s)))

\* the ways /^(\d+)(?:[.:\-\)\s]+)?\s*(.+)$/ can match line: d digits, then a
\* separator run of s characters, then w white-space characters, then the rest
LineMatches(line) ==
  {m \in (1..Len(line)) \X (0..Len(line)) \X (0..Len(line)) :
     /\ m[1] + m[2] + m[3] < Len(line)
     /\ \A i \in 1..m[1] : line[i] \in DigitChars
     /\ \A i \in (m[1] + 1)..(m[1] + m[2]) : line[i] \in SepChars
     /\ \A i \in (m[1] + m[2] + 1)..(m[1] + m[2] + m[3]) : line[i] \in WsChars
     /\ \A i \in (m[1] + m[2] + m[3] + 1)..Len(line) :
          line[i] \notin LineTerminators}

\* greedy quantifiers: the backtracking search tries longer runs first
Prefer(a, b) ==
  \/ a[1] > b[1]
  \/ a[1] = b[1] /\ a[2] > b[2]
  \/ a[1] = b[1] /\ a[2] = b[2] /\ a[3] >= b[3]

LineMatch(line) ==
  LET all == LineMatches(line)
  IN CHOOSE m \in all : \A o \in all : Prefer(m, o)

\* ParseLine keeping the answer an index already has
ParseLine_KeepsFirst(answers, rawLine) ==
  LET line == Trim(rawLine) IN
  IF line = <<>> THEN answers
  ELSE IF LineMatches(line) = {} THEN answers
  ELSE LET m == LineMatch(line)
           questionNumber == ParseInt(SubSeq(line, 1, m[1]))
           answer == Trim(SubSeq(line, m[1] + m[2] + m[3] + 1, Len(line)))
       IN IF answer # <<>> /\ ~MapHas(answers, questionNumber)
          THEN MapSet(answers, questionNumber, answer)
          ELSE answers

\* one iteration of the for loop of parseNumberedAnswers
ParseLine(answers, rawLine) ==
  LET line == Trim(rawLine) IN
  IF line = <<>> THEN answers
  ELSE IF LineMatches(line) = {} THEN answers
  ELSE LET m == LineMatch(line)
           questionNumber == ParseInt(SubSeq(line, 1, m[1]))
           answer == Trim(SubSeq(line, m[1] + m[2] + m[3] + 1, Len(line)))
       IN IF answer # <<>> THEN MapSet(answers, questionNumber, answer)
          ELSE answers

RECURSIVE ParseLines(_, _)
ParseLines(answers, lines) ==
  IF lines = <<>> THEN answers
  ELSE ParseLines(ParseLine(answers, Head(lines)), Tail(lines))

\* parseNumberedAnswers(messageText); the empty text stands for every falsy
\* or non-string argument
parseNumberedAnswers(messageText) ==
  IF messageText = <<>> THEN {}
  ELSE ParseLines({}, SplitLines(messageText))

\* `${index + 1}`: the decimal digits of a positive number
DigitChar(d) ==
  CASE d = 0 -> "0" [] d = 1 -> "1" [] d = 2 -> "2" [] d = 3 -> "3"
    [] d = 4 -> "4" [] d = 5 -> "5" [] d = 6 -> "6" [] d = 7 -> "7"
    [] d = 8 -> "8" [] d = 9 -> "9"
RECURSIVE NumberToString(_)
NumberToString(n) ==
  IF n < 10 THEN <<DigitChar(n)>>
  ELSE NumberToString(n \div 10) \o <<DigitChar(n % 10)>>

\* FormatFrom numbering the questions by index, not index + 1
RECURSIVE FormatFrom_ZeroBased(_, _, _)
FormatFrom_ZeroBased(formattedText, questions, index) ==
  IF index >= Len(questions) THEN formattedText
  ELSE FormatFrom_ZeroBased(
         formattedText \o NumberToString(index) \o <<".", " ">>
           \o questions[index + 1] \o <<"\n">>,
         questions, index + 1)

\* the forEach of formatNumberedQuestions, positions index..Len(questions)
RECURSIVE FormatFrom(_, _, _)
FormatFrom(formattedText, questions, index) ==
  IF index >= Len(questions) THEN formattedText
  ELSE FormatFrom(
         formattedText \o NumberToString(index + 1) \o <<".", " ">>
           \o questions[index + 1] \o <<"\n">>,
         questions, index + 1)

\* formatNumberedQuestions(questions); the empty sequence stands for every
\* argument that is no array
formatNumberedQuestions(questions) ==
  IF Len(questions) = 0 THEN <<>>
  ELSE FormatFrom(<<>>, questions, 0)

\* the arguments that are no strings: undefined, null, a number, an object
NonStringTypes == {"undefined", "null", "number", "object"}
\* parseNumberedAnswers applied to an argument of any type: the guard
\* !messageText || typeof messageText !== 'string'
parseNumberedAnswersOf(type, messageText) ==
  IF type # "string" THEN {}
  ELSE parseNumberedAnswers(messageText)

\* MatchFrom looking up answers[index], not answers[index + 1]
RECURSIVE MatchFrom_ZeroBased(_, _, _, _)
MatchFrom_ZeroBased(matchedResult, questions, answers, index) ==
  IF index >= Len(questions) THEN matchedResult
  ELSE LET answerNumber == index
           next == IF MapHas(answers, answerNumber)
                      /\ MapGet(answers, answerNumber) # <<>>
                   THEN MapSet(matchedResult, questions[index + 1],
                               MapGet(answers, answerNumber))
                   ELSE matchedResult
       IN MatchFrom_ZeroBased(next, questions, answers, index + 1)

\* MatchFrom keeping the answer a question text already has
RECURSIVE MatchFrom_KeepsFirst(_, _, _, _)
MatchFrom_KeepsFirst(matchedResult, questions, answers, index) ==
  IF index >= Len(questions) THEN matchedResult
  ELSE LET answerNumber == index + 1
           next == IF MapHas(answers, answerNumber)
                      /\ MapGet(answers, answerNumber) # <<>>
                      /\ ~MapHas(matchedResult, questions[index + 1])
                   THEN MapSet(matchedResult, questions[index + 1],
                               MapGet(answers, answerNumber))
                   ELSE matchedResult
       IN MatchFrom_KeepsFirst(next, questions, answers, index + 1)

\* the forEach of matchAnswersToQuestions, positions from..Len(questions)
RECURSIVE MatchFrom(_, _, _, _)
MatchFrom(matchedResult, questions, answers, index) ==
  IF index >= Len(questions) THEN matchedResult
  ELSE LET answerNumber == index + 1
           next == IF MapHas(answers, answerNumber)
                      /\ MapGet(answers, answerNumber) # <<>>
                   THEN MapSet(matchedResult, questions[index + 1],
                               MapGet(answers, answerNumber))
                   ELSE matchedResult
       IN MatchFrom(next, questions, answers, index + 1)

\* matchAnswersToQuestions(questions, answers)
matchAnswersToQuestions(questions, answers) ==
  IF Len(questions) = 0 THEN {}
  ELSE MatchFrom({}, questions, answers, 0)


(* --------------------- inputs of the router ---------------------------- *)
FullEmail ==
  [subject |-> "Hello", body |-> "Body", sender |-> "a@x", threadId |-> "T1"]
\* req.body.email absent
NoEmail ==
  [subject |-> Undef, body |-> Undef, sender |-> Undef, threadId |-> Undef]
\* a threadId that is a JSON object instead of a string: the object
\* {to: "b@y", subject: "Re", body: "text", threadId: "T2"}
ThreadObject == "{to,subject,body,threadId}"
ThreadObjectFields ==
  [to |-> "b@y", subject |-> "Re", body |-> "text", threadId |-> "T2"]
Emails ==
  {FullEmail,
   [FullEmail EXCEPT !.subject = Undef, !.threadId = ThreadObject],
   [FullEmail EXCEPT !.body = Undef, !.sender = Undef, !.threadId = Undef]}
QuestionLists == {<<"Q1">>, <<"Q1", "Q2">>}
RegChatIds == {Num(1), Str(1)}
UpdateChats == {Num(1), Num(2)}
UpdateTexts ==
  {<<>>,                                  \* no text
   <<"/", "s">>,                          \* a command
   <<"h", "i">>,                          \* no numbered line
   <<"2", ")", "b", "\n", "5", " ", "z">>}
\* the updates delivered to POST /webhook
Updates ==
  [update_id : {0, 7}, hasMessage : BOOLEAN, chat : UpdateChats,
   text : UpdateTexts]
NoUpdate ==
  [update_id |-> 0, hasMessage |-> FALSE, chat |-> NoChat, text |-> <<>>]
\* the reply texts the generator may return
Replies == {"Reply A", "Reply B"}
NoEmailData == [originalEmail |-> NoEmail, questions |-> <<>>, timestamp |-> 0]

(* --------------------------- variables --------------------------------- *)
VARIABLES
  activeEmails,  \* routes/telegram.js: const activeEmails = new Map()
  hpc,           \* position of the /webhook handler
  hUpdate,       \* req.body of the /webhook handler
  emailData,     \* local emailData of the /webhook handler
  draftText,     \* local draftText.replyText of the /webhook handler
  hStatus,       \* status the /webhook handler responded with
  genCalls,      \* generateReply calls of this handling
  genResult,     \* "none", "pending", "ok" or "throw"
  draftCalls,    \* createDraft calls of this handling
  sent,          \* sendMessage calls of this handling
  rpc,           \* position of the /send-email-questions handler
  rChat,         \* chatId of the /send-email-questions handler
  rStatus,       \* status the /send-email-questions handler responded with
  regSent,       \* sendMessage calls of this registration
  regs,          \* number of accepted registrations
  served,        \* history: chats whose stored state has had a reply generated
  hLive,         \* history: the state this handling read is still the stored one
  now,           \* Date.now()
  lastUpdateId,  \* polling.js: let lastUpdateId = 0
  isPollingActive, \* polling.js: let isPollingActive = false
  retryCount,    \* polling.js: let retryCount = 0
  retryDelay,    \* polling.js: let retryDelay = 5000
  lpc,           \* position of startPolling / pollOnce
  timer,         \* delay of the pending setTimeout(pollOnce, ...), 0 if none
  jitter,        \* const jitter of the last conflict branch
  fetchOffset,   \* offset parameter of the last getUpdates request
  batch,         \* const updates of pollOnce: the ids of the fetched batch
  idx,           \* position of the for loop over updates
  dispatched,    \* handleUpdate calls made for the current batch
  consec,        \* history: consecutive conflict failures up to now
  runBase,       \* history: retryCount when that run of conflicts began
  handled,       \* history: how the handleUpdate calls of the batch ended
  maxReturned,   \* history: greatest update id any fetch has returned
  providerOk,    \* history: no fetch returned an id below its offset
  lastFetch,     \* history: how the last getUpdates call ended
  managerEmails, \* email-state.js: const activeEmails = new Map()
  managerObjects, \* which argument object each entry of that Map refers to
  sop,           \* the EmailStateManager call made last and its arguments
  ret,           \* what that call returned
  ticks,         \* number of clock advances so far
  pQuestions,    \* argument questions of matchAnswersToQuestions
  pAnswers,      \* argument answers of matchAnswersToQuestions
  pResult,       \* what the parser function returned
  ppc,           \* "input" before the parser call, then the function called
  pText,         \* argument messageText of parseNumberedAnswers
  pFun,          \* the parser function the arguments are meant for
  pType          \* typeof the messageText argument; "null" for null

routerVars ==
  <<activeEmails, hpc, hUpdate, emailData, draftText, hStatus, genCalls,
    genResult, draftCalls, sent, rpc, rChat, rStatus, regSent, regs, served,
    hLive>>

loopVars ==
  <<lastUpdateId, isPollingActive, retryCount, retryDelay, lpc, timer, jitter,
    fetchOffset, batch, idx, dispatched, consec, runBase, handled,
    maxReturned, providerOk, lastFetch>>

storeVars == <<managerEmails, managerObjects, sop, ret, ticks>>

parserVars == <<pQuestions, pAnswers, pResult, ppc, pText, pFun, pType>>

\* what the routes of routes/telegram.js never touch
notRouter == <<now, loopVars, storeVars, parserVars>>

(* ------------------------ controllers/telegram.js ---------------------- *)
\* telegramParser.parseNumberedAnswers on the texts of the updates, computed
\* once for each text
ParsedTexts == [text \in UpdateTexts |-> parseNumberedAnswers(text)]
ParsedText(text) ==
  IF text \in UpdateTexts THEN ParsedTexts[text]
  ELSE parseNumberedAnswers(text)

\* handleIncomingMessage telling numbered answers from plain messages: a text
\* without a numbered line gets type 'message'
handleIncomingMessage_MessageType(message) ==
  IF message.text = <<>>
  THEN [success |-> FALSE, type |-> "none", data |-> {}]
  ELSE [success |-> TRUE,
        type |-> IF ParsedText(message.text) = {} THEN "message"
                 ELSE "answers",
        data |-> ParsedText(message.text)]

\* handleIncomingMessage(message)
handleIncomingMessage(message) ==
  IF message.text = <<>>
  THEN [success |-> FALSE, type |-> "none", data |-> {}]
  ELSE [success |-> TRUE, type |-> "answers",
        data |-> ParsedText(message.text)]

\* messageText && messageText.startsWith('/')
\* IsCommand testing for the prefix "#" instead of "/"
IsCommand_NoPrefixTest(messageText) == messageText # <<>> /\ messageText[1] = "#"
IsCommand(messageText) == messageText # <<>> /\ messageText[1] = "/"

(* ------------------------- routes/telegram.js -------------------------- *)
\* EnsureRequiredFields assigning the defaults without "current value ||"
EnsureRequiredFields_Overwrites(email) ==
  IF Falsy(email.subject) \/ Falsy(email.body) \/ Falsy(email.sender)
  THEN [email EXCEPT
          !.subject = "[No Subject]",
          !.body = "",
          !.sender = "[Unknown Sender]"]
  ELSE email

\* EnsureRequiredFields testing and defaulting the subject only
EnsureRequiredFields_SubjectOnly(email) ==
  IF Falsy(email.subject)
  THEN [email EXCEPT !.subject = "[No Subject]"]
  ELSE email

\* "Ensure required fields are present": the in-place defaults of the email
EnsureRequiredFields(email) ==
  IF Falsy(email.subject) \/ Falsy(email.body) \/ Falsy(email.sender)
  THEN [email EXCEPT
          !.subject = IF Falsy(@) THEN "[No Subject]" ELSE @,
          !.body = IF Falsy(@) THEN "" ELSE @,
          !.sender = IF Falsy(@) THEN "[Unknown Sender]" ELSE @]
  ELSE email

\* telegramService.sendMessage(chatId, text) is called and awaited
SendCall(log, chat, kind) ==
  Append(log, [chat |-> chat, kind |-> kind, status |-> "pending"])
\* the awaited sendMessage resolves or rejects
SendDone(log, ok) ==
  [log EXCEPT ![Len(log)].status = IF ok THEN "ok" ELSE "failed"]
\* the awaited collaborator call resolves or rejects
CallDone(log, ok) ==
  [log EXCEPT ![Len(log)].status = IF ok THEN "ok" ELSE "failed"]

\* value[name] of a JSON value: a string has none of the four properties
Property(value, name) ==
  IF value = ThreadObject THEN ThreadObjectFields[name] ELSE Undef

\* createDraft = async ({ to, subject, body, threadId }) => ...: the four
\* parameters are destructured from the first argument of the call (none is
\* bound, and the call throws at once, when that argument is undefined)
createDraft(args) ==
  [args |-> args,
   to |-> Property(args[1], "to"),
   subject |-> Property(args[1], "subject"),
   body |-> Property(args[1], "body"),
   threadId |-> Property(args[1], "threadId"),
   status |-> "pending"]

\* the catch block of the reply orchestration: the error notice is sent
ErrorNotice(log, chat) == SendCall(log, chat, "error_notice")

\* router.post('/webhook'): from the request to the first await
StartHandle(update) ==
  /\ hpc \in {"idle", "done"}
  /\ hUpdate' = update
  /\ draftText' = ""
  /\ draftCalls' = <<>>
  /\ IF update.update_id = 0
     THEN \* invalid update: 400
          /\ hpc' = "done" /\ hStatus' = 400
          /\ sent' = <<>> /\ genCalls' = <<>> /\ genResult' = "none"
          /\ emailData' = NoEmailData
          /\ UNCHANGED activeEmails
     ELSE
     /\ hStatus' = 200
     /\ LET result == handleIncomingMessage(update)
            chatId == update.chat
        IN
        IF ~update.hasMessage \/ IsCommand(update.text)
           \/ ~(result.success /\ result.type = "answers")
        THEN \* no message, a command, or a message that is no answer
             /\ hpc' = "done"
             /\ sent' = <<>> /\ genCalls' = <<>> /\ genResult' = "none"
             /\ emailData' = NoEmailData
             /\ UNCHANGED activeEmails
        ELSE    IF MapHas(activeEmails, chatId)
                THEN LET found == MapGet(activeEmails, chatId)
                         finalAnswersObject ==
                           matchAnswersToQuestions(found.questions, result.data)
                         ensured ==
                           [found EXCEPT !.originalEmail =
                                           EnsureRequiredFields(@)]
                     IN /\ activeEmails' = MapSet(activeEmails, chatId, ensured)
                        /\ emailData' = ensured
                        /\ genCalls' =
                             <<[email |-> ensured.originalEmail,
                                answers |-> finalAnswersObject]>>
                        /\ genResult' = "pending"
                        /\ sent' = <<>>
                        /\ hpc' = "gen"
                ELSE /\ sent' = SendCall(<<>>, chatId, "no_active")
                     /\ genCalls' = <<>> /\ genResult' = "none"
                     /\ emailData' = NoEmailData
                     /\ hpc' = "noActive"
                     /\ UNCHANGED activeEmails
  /\ hLive' = (hpc' = "gen")
  /\ UNCHANGED <<rpc, rChat, rStatus, regSent, regs, served, notRouter>>

\* await openaiService.generateReply(...) returns the reply
GenerateOk(reply) ==
  /\ hpc = "gen"
  /\ genResult' = "ok"
  /\ draftText' = reply
  /\ sent' = SendCall(sent, hUpdate.chat, "reply")
  /\ hpc' = "sendReply"
  /\ served' = IF hLive THEN served \cup {hUpdate.chat} ELSE served
  /\ UNCHANGED <<activeEmails, hUpdate, emailData, hStatus, genCalls,
                 draftCalls, rpc, rChat, rStatus, regSent, regs, hLive,
                 notRouter>>

\* GenerateThrows with the state cleared in the catch block as well
GenerateThrows_Clears ==
  /\ hpc = "gen"
  /\ genResult' = "throw"
  /\ sent' = SendCall(sent, hUpdate.chat, "error_notice")
  /\ activeEmails' = MapDelete(activeEmails, hUpdate.chat)
  /\ served' = served \ {hUpdate.chat}
  /\ hpc' = "errNotice"
  /\ UNCHANGED <<hUpdate, emailData, draftText, hStatus, genCalls, draftCalls,
                 rpc, rChat, rStatus, regSent, regs, hLive, notRouter>>

\* await openaiService.generateReply(...) throws
GenerateThrows ==
  /\ hpc = "gen"
  /\ genResult' = "throw"
  /\ sent' = ErrorNotice(sent, hUpdate.chat)
  /\ hpc' = "errNotice"
  /\ UNCHANGED <<activeEmails, hUpdate, emailData, draftText, hStatus,
                 genCalls, draftCalls, rpc, rChat, rStatus, regSent, regs, served, hLive,
                 notRouter>>

\* SendReplyReturn with createDraft called although the send was rejected
SendReplyReturn_DraftAnyway(ok) ==
  /\ hpc = "sendReply"
  /\ sent' = SendDone(sent, ok)
  /\ draftCalls' =
       <<createDraft(<<emailData.originalEmail.threadId,
                       emailData.originalEmail.sender,
                       emailData.originalEmail.subject,
                       draftText>>)>>
  /\ hpc' = "draft"
  /\ UNCHANGED <<activeEmails, hUpdate, emailData, draftText, hStatus,
                 genCalls, genResult, rpc, rChat, rStatus, regSent, regs, served, hLive,
                 notRouter>>

\* await sendMessage(chatId, draft reply) returns or throws
SendReplyReturn(ok) ==
  /\ hpc = "sendReply"
  /\ IF ok
     THEN /\ sent' = SendDone(sent, TRUE)
          /\ draftCalls' =
               <<createDraft(<<emailData.originalEmail.threadId,
                               emailData.originalEmail.sender,
                               emailData.originalEmail.subject,
                               draftText>>)>>
          /\ hpc' = "draft"
     ELSE /\ sent' = ErrorNotice(SendDone(sent, FALSE), hUpdate.chat)
          /\ hpc' = "errNotice"
          /\ UNCHANGED draftCalls
  /\ UNCHANGED <<activeEmails, hUpdate, emailData, draftText, hStatus,
                 genCalls, genResult, rpc, rChat, rStatus, regSent, regs, served, hLive,
                 notRouter>>

\* await gmailService.createDraft(...) returns or throws; it returns only
\* with a body that has a substring method
DraftReturn(ok) ==
  /\ hpc = "draft"
  /\ ok => draftCalls[1].body # Undef
  /\ draftCalls' = CallDone(draftCalls, ok)
  /\ IF ok
     THEN /\ sent' = SendCall(sent, hUpdate.chat, "draft_saved")
          /\ hpc' = "notifySaved"
     ELSE /\ sent' = SendCall(sent, hUpdate.chat, "draft_failed")
          /\ hpc' = "notifyFailed"
  /\ UNCHANGED <<activeEmails, hUpdate, emailData, draftText, hStatus,
                 genCalls, genResult, rpc, rChat, rStatus, regSent, regs, served, hLive,
                 notRouter>>

\* "Clear the active email data": activeEmails.delete(chatId)
ClearActive(m, chatId) == MapDelete(m, chatId)

\* await sendMessage(chatId, draft saved) returns, or throws into the
\* catch (draftError) of the same try
NotifySavedReturn(ok) ==
  /\ hpc = "notifySaved"
  /\ IF ok
     THEN /\ sent' = SendDone(sent, TRUE)
          /\ activeEmails' = ClearActive(activeEmails, hUpdate.chat)
          /\ served' = served \ {hUpdate.chat}
          /\ hpc' = "done"
     ELSE /\ sent' = SendCall(SendDone(sent, FALSE), hUpdate.chat,
                              "draft_failed")
          /\ hpc' = "notifyFailed"
          /\ UNCHANGED <<activeEmails, served>>
  /\ UNCHANGED <<hUpdate, emailData, draftText, hStatus, genCalls, genResult,
                 draftCalls, rpc, rChat, rStatus, regSent, regs, hLive,
                 notRouter>>

\* await sendMessage(chatId, draft could not be saved) returns or throws
NotifyFailedReturn(ok) ==
  /\ hpc = "notifyFailed"
  /\ IF ok
     THEN /\ sent' = SendDone(sent, TRUE)
          /\ activeEmails' = ClearActive(activeEmails, hUpdate.chat)
          /\ served' = served \ {hUpdate.chat}
          /\ hpc' = "done"
     ELSE /\ sent' = ErrorNotice(SendDone(sent, FALSE), hUpdate.chat)
          /\ hpc' = "errNotice"
          /\ UNCHANGED <<activeEmails, served>>
  /\ UNCHANGED <<hUpdate, emailData, draftText, hStatus, genCalls, genResult,
                 draftCalls, rpc, rChat, rStatus, regSent, regs, hLive,
                 notRouter>>

\* await sendMessage(chatId, error notice) returns, or throws into the
\* outer catch, which responds 200 as well
ErrNoticeReturn(ok) ==
  /\ hpc = "errNotice"
  /\ sent' = SendDone(sent, ok)
  /\ hpc' = "done"
  /\ UNCHANGED <<activeEmails, hUpdate, emailData, draftText, hStatus,
                 genCalls, genResult, draftCalls, rpc, rChat, rStatus,
                 regSent, regs, served, hLive,
                 notRouter>>

\* NoActiveReturn with the send inside the try block of the orchestration: a
\* failed send is followed by the error notice
NoActiveReturn_InsideTry(ok) ==
  /\ hpc = "noActive"
  /\ IF ok
     THEN /\ sent' = SendDone(sent, TRUE)
          /\ hpc' = "done"
     ELSE /\ sent' = SendCall(SendDone(sent, FALSE), hUpdate.chat,
                              "error_notice")
          /\ hpc' = "errNotice"
  /\ UNCHANGED <<activeEmails, hUpdate, emailData, draftText, hStatus,
                 genCalls, genResult, draftCalls, rpc, rChat, rStatus,
                 regSent, regs, served, hLive,
                 notRouter>>

\* await sendMessage(chatId, no active email) returns or throws
NoActiveReturn(ok) ==
  /\ hpc = "noActive"
  /\ sent' = SendDone(sent, ok)
  /\ hpc' = "done"
  /\ UNCHANGED <<activeEmails, hUpdate, emailData, draftText, hStatus,
                 genCalls, genResult, draftCalls, rpc, rChat, rStatus,
                 regSent, regs, served, hLive,
                 notRouter>>

\* Register sending the questions without the activeEmails.set before
Register_SendsWithoutStore(chatId, questions, email) ==
  /\ rpc = "idle"
  /\ regs < MaxRegs
  /\ rChat' = chatId
  /\ IF FalsyId(chatId) \/ Len(questions) = 0 \/ email = NoEmail
     THEN /\ rStatus' = 400
          /\ UNCHANGED <<activeEmails, rpc, regSent, regs, served, hLive>>
     ELSE /\ UNCHANGED activeEmails
          /\ regSent' = SendCall(<<>>, chatId, "questions")
          /\ rpc' = "sending"
          /\ rStatus' = 0
          /\ regs' = regs + 1
          /\ served' = served \ {chatId}
          /\ hLive' = (hLive /\ ~(hpc \notin {"idle", "done"}
                                   /\ chatId = hUpdate.chat))
  /\ UNCHANGED <<hpc, hUpdate, emailData, draftText, hStatus, genCalls,
                 genResult, draftCalls, sent, notRouter>>

\* Register without the test questions.length === 0
Register_NoQuestionCheck(chatId, questions, email) ==
  /\ rpc = "idle"
  /\ regs < MaxRegs
  /\ rChat' = chatId
  /\ IF FalsyId(chatId) \/ email = NoEmail
     THEN /\ rStatus' = 400
          /\ UNCHANGED <<activeEmails, rpc, regSent, regs, served, hLive>>
     ELSE /\ activeEmails' =
               MapSet(activeEmails, chatId,
                      [originalEmail |-> email, questions |-> questions,
                       timestamp |-> now])
          /\ regSent' = SendCall(<<>>, chatId, "questions")
          /\ rpc' = "sending"
          /\ rStatus' = 0
          /\ regs' = regs + 1
          /\ served' = served \ {chatId}
          /\ hLive' = (hLive /\ ~(hpc \notin {"idle", "done"}
                                   /\ chatId = hUpdate.chat))
  /\ UNCHANGED <<hpc, hUpdate, emailData, draftText, hStatus, genCalls,
                 genResult, draftCalls, sent, notRouter>>

\* router.post('/send-email-questions'): validation, activeEmails.set and the
\* call of sendEmailQuestions
Register(chatId, questions, email) ==
  /\ rpc = "idle"
  /\ regs < MaxRegs
  /\ rChat' = chatId
  /\ IF FalsyId(chatId) \/ Len(questions) = 0 \/ email = NoEmail
     THEN /\ rStatus' = 400
          /\ UNCHANGED <<activeEmails, rpc, regSent, regs, served, hLive>>
     ELSE /\ activeEmails' =
               MapSet(activeEmails, chatId,
                      [originalEmail |-> email, questions |-> questions,
                       timestamp |-> now])
          /\ regSent' = SendCall(<<>>, chatId, "questions")
          /\ rpc' = "sending"
          /\ rStatus' = 0
          /\ regs' = regs + 1
          /\ served' = served \ {chatId}
          /\ hLive' = (hLive /\ ~(hpc \notin {"idle", "done"}
                                   /\ chatId = hUpdate.chat))
  /\ UNCHANGED <<hpc, hUpdate, emailData, draftText, hStatus, genCalls,
                 genResult, draftCalls, sent, notRouter>>

\* await telegramService.sendEmailQuestions(...) returns or throws
RegisterReturn(ok) ==
  /\ rpc = "sending"
  /\ regSent' = SendDone(regSent, ok)
  /\ rStatus' = IF ok THEN 200 ELSE 500
  /\ rpc' = "idle"
  /\ UNCHANGED <<activeEmails, hpc, hUpdate, emailData, draftText, hStatus,
                 genCalls, genResult, draftCalls, sent, rChat, regs, served, hLive,
                 notRouter>>

(* -------------------- services/telegram/polling.js --------------------- *)
\* delays are counted in units of 1/64 ms, so that the factor 1.5 is exact
Ms == 2 ^ 6
\* let retryDelay = 5000
BaseDelay == 5000 * Ms
\* Math.min(60000, ...)
MaxDelay == 60000 * Ms
\* if (retryCount > 10)
MaxRetries == 10
\* startPolling(handler, 2000) in the entry point
Interval == 2000 * Ms
\* Math.random() * 1000 lies in [0, 1000): whole milliseconds keep 1.5 exact
Jitters == {0, 500 * Ms, 999 * Ms}

Min(a, b) == IF a <= b THEN a ELSE b
Max(a, b) == IF a >= b THEN a ELSE b

\* Math.max(...data.result.map(update => update.update_id))
RECURSIVE MaxOf(_)
MaxOf(ids) ==
  IF Len(ids) = 1 THEN ids[1] ELSE Max(ids[1], MaxOf(Tail(ids)))

\* the batches data.result the provider may return: ids in any order
RECURSIVE SeqsUpTo(_, _)
SeqsUpTo(S, n) ==
  IF n = 0 THEN {<<>>}
  ELSE SeqsUpTo(S, n - 1)
         \cup {Append(q, x) : q \in {r \in SeqsUpTo(S, n - 1) : Len(r) = n - 1},
                              x \in S}
Batches == SeqsUpTo(1..MaxUpdateId, MaxBatch)

\* retryDelay * 1.5 + jitter without the cap
Backoff_NoCap(delay, j) == (delay * 3) \div 2 + j

\* Math.min(60000, retryDelay * 1.5) with the cap applied before the factor
Backoff_CapFirst(delay, j) == (Min(MaxDelay, delay) * 3) \div 2 + j

\* retryDelay = Math.min(60000, retryDelay * 1.5) + jitter
Backoff(delay, j) == Min(MaxDelay, (delay * 3) \div 2) + j

\* startPolling: the deleteWebhook request is sent
StartPolling ==
  /\ lpc = "idle"
  /\ lpc' = "deleteWebhook"
  /\ UNCHANGED <<lastUpdateId, isPollingActive, retryCount, retryDelay, timer,
                 jitter, fetchOffset, batch, idx, dispatched, consec, runBase,
                 handled, maxReturned, providerOk, lastFetch, routerVars, now, storeVars,
                 parserVars>>

\* PollOnce requesting offset lastUpdateId, without the + 1
PollOnce_OffsetAtCursor ==
  IF ~isPollingActive'
  THEN /\ lpc' = "stopped"
       /\ UNCHANGED fetchOffset
  ELSE /\ lpc' = "fetch"
       /\ fetchOffset' = lastUpdateId

\* pollOnce up to the fetch of getUpdates: the guard and the request
PollOnce ==
  IF ~isPollingActive'
  THEN /\ lpc' = "stopped"
       /\ UNCHANGED fetchOffset
  ELSE /\ lpc' = "fetch"
       /\ fetchOffset' = lastUpdateId + 1

\* the deleteWebhook request succeeds, is refused or throws: all are logged
\* and ignored; the loop becomes active and pollOnce is called
DeleteWebhookReturn(outcome) ==
  /\ lpc = "deleteWebhook"
  /\ isPollingActive' = TRUE
  /\ PollOnce
  /\ UNCHANGED <<lastUpdateId, retryCount, retryDelay, timer, jitter, batch,
                 idx, dispatched, consec, runBase, handled, maxReturned,
                 providerOk, lastFetch, routerVars, now, storeVars, parserVars>>

\* the timer of setTimeout(pollOnce, ...) fires: a new call of pollOnce, whose
\* locals are fresh
TimerFire ==
  /\ lpc = "timer"
  /\ timer' = 0
  /\ UNCHANGED isPollingActive
  /\ PollOnce
  /\ batch' = <<>>
  /\ idx' = 0
  /\ dispatched' = <<>>
  /\ handled' = <<>>
  /\ UNCHANGED <<lastUpdateId, retryCount, retryDelay, jitter, consec, runBase,
                 maxReturned, providerOk, lastFetch, routerVars, now, storeVars,
                 parserVars>>

\* FetchSuccess calling handleUpdate for every update without await
FetchSuccess_NoAwait(result) ==
  /\ lpc = "fetch"
  /\ lastUpdateId' = IF Len(result) > 0 THEN MaxOf(result) ELSE lastUpdateId
  /\ retryCount' = 0
  /\ retryDelay' = BaseDelay
  /\ jitter' = 0
  /\ batch' = result
  /\ IF Len(result) > 0
     THEN /\ idx' = Len(result)
          /\ dispatched' = result
          /\ lpc' = "handling"
          /\ timer' = 0
     ELSE /\ idx' = 0
          /\ dispatched' = <<>>
          /\ lpc' = "timer"
          /\ timer' = Interval
  /\ consec' = 0 /\ runBase' = 0
  /\ handled' = <<>>
  /\ maxReturned' = IF Len(result) > 0 THEN Max(maxReturned, MaxOf(result))
                    ELSE maxReturned
  /\ lastFetch' = "success"
  /\ providerOk' = (providerOk /\ \A i \in 1..Len(result) :
                                    result[i] >= fetchOffset)
  /\ UNCHANGED <<isPollingActive, fetchOffset, routerVars, now, storeVars,
                 parserVars>>

\* FetchSuccess scheduling the next poll before the handlers have ended, as a
\* setInterval loop does
FetchSuccess_TimerFirst(result) ==
  /\ lpc = "fetch"
  /\ lastUpdateId' = IF Len(result) > 0 THEN MaxOf(result) ELSE lastUpdateId
  /\ retryCount' = 0
  /\ retryDelay' = BaseDelay
  /\ jitter' = 0
  /\ batch' = result
  /\ IF Len(result) > 0
     THEN /\ idx' = 1
          /\ dispatched' = <<result[1]>>
          /\ lpc' = "timer"
          /\ timer' = Interval
     ELSE /\ idx' = 0
          /\ dispatched' = <<>>
          /\ lpc' = "timer"
          /\ timer' = Interval
  /\ consec' = 0 /\ runBase' = 0
  /\ handled' = <<>>
  /\ maxReturned' = IF Len(result) > 0 THEN Max(maxReturned, MaxOf(result))
                    ELSE maxReturned
  /\ lastFetch' = "success"
  /\ providerOk' = (providerOk /\ \A i \in 1..Len(result) :
                                    result[i] >= fetchOffset)
  /\ UNCHANGED <<isPollingActive, fetchOffset, routerVars, now, storeVars,
                 parserVars>>

\* FetchSuccess resetting the counters only inside if (updates.length > 0)
FetchSuccess_ResetsOnUpdates(result) ==
  /\ lpc = "fetch"
  /\ lastUpdateId' = IF Len(result) > 0 THEN MaxOf(result) ELSE lastUpdateId
  /\ retryCount' = IF Len(result) > 0 THEN 0 ELSE retryCount
  /\ retryDelay' = IF Len(result) > 0 THEN BaseDelay ELSE retryDelay
  /\ jitter' = 0
  /\ batch' = result
  /\ IF Len(result) > 0
     THEN /\ idx' = 1
          /\ dispatched' = <<result[1]>>
          /\ lpc' = "handling"
          /\ timer' = 0
     ELSE /\ idx' = 0
          /\ dispatched' = <<>>
          /\ lpc' = "timer"
          /\ timer' = Interval
  /\ consec' = 0 /\ runBase' = 0
  /\ handled' = <<>>
  /\ maxReturned' = IF Len(result) > 0 THEN Max(maxReturned, MaxOf(result))
                    ELSE maxReturned
  /\ lastFetch' = "success"
  /\ providerOk' = (providerOk /\ \A i \in 1..Len(result) :
                                    result[i] >= fetchOffset)
  /\ UNCHANGED <<isPollingActive, fetchOffset, routerVars, now, storeVars,
                 parserVars>>

\* FetchSuccess without the assignment to lastUpdateId in getUpdates
FetchSuccess_KeepsCursor(result) ==
  /\ lpc = "fetch"
  /\ retryCount' = 0
  /\ retryDelay' = BaseDelay
  /\ jitter' = 0
  /\ batch' = result
  /\ IF Len(result) > 0
     THEN /\ idx' = 1
          /\ dispatched' = <<result[1]>>
          /\ lpc' = "handling"
          /\ timer' = 0
     ELSE /\ idx' = 0
          /\ dispatched' = <<>>
          /\ lpc' = "timer"
          /\ timer' = Interval
  /\ consec' = 0 /\ runBase' = 0
  /\ handled' = <<>>
  /\ maxReturned' = IF Len(result) > 0 THEN Max(maxReturned, MaxOf(result))
                    ELSE maxReturned
  /\ lastFetch' = "success"
  /\ providerOk' = (providerOk /\ \A i \in 1..Len(result) :
                                    result[i] >= fetchOffset)
  /\ UNCHANGED <<lastUpdateId, isPollingActive, fetchOffset, routerVars, now,
                 storeVars, parserVars>>

\* getUpdates returns data.result: the cursor is moved, the counters are
\* reset, and either the first update is dispatched or the next poll is
\* scheduled
FetchSuccess(result) ==
  /\ lpc = "fetch"
  /\ lastUpdateId' = IF Len(result) > 0 THEN MaxOf(result) ELSE lastUpdateId
  /\ retryCount' = 0
  /\ retryDelay' = BaseDelay
  /\ jitter' = 0
  /\ batch' = result
  /\ IF Len(result) > 0
     THEN /\ idx' = 1
          /\ dispatched' = <<result[1]>>
          /\ lpc' = "handling"
          /\ timer' = 0
     ELSE /\ idx' = 0
          /\ dispatched' = <<>>
          /\ lpc' = "timer"
          /\ timer' = Interval
  /\ consec' = 0 /\ runBase' = 0
  /\ handled' = <<>>
  /\ maxReturned' = IF Len(result) > 0 THEN Max(maxReturned, MaxOf(result))
                    ELSE maxReturned
  /\ lastFetch' = "success"
  /\ providerOk' = (providerOk /\ \A i \in 1..Len(result) :
                                    result[i] >= fetchOffset)
  /\ UNCHANGED <<isPollingActive, fetchOffset, routerVars, now, storeVars,
                 parserVars>>

\* HandlerReturn without the try/catch around await handleUpdate(update): the
\* exception leaves the for loop and reaches the catch of pollOnce
HandlerReturn_AbortsOnThrow(ok) ==
  /\ lpc = "handling"
  /\ IF ok /\ idx < Len(batch)
     THEN /\ idx' = idx + 1
          /\ dispatched' = Append(dispatched, batch[idx + 1])
          /\ UNCHANGED <<lpc, timer>>
     ELSE /\ lpc' = "timer"
          /\ timer' = Interval
          /\ UNCHANGED <<idx, dispatched>>
  /\ handled' = Append(handled, IF ok THEN "returned" ELSE "threw")
  /\ UNCHANGED <<lastUpdateId, isPollingActive, retryCount, retryDelay, jitter,
                 fetchOffset, batch, consec, runBase, maxReturned, providerOk, lastFetch,
                 routerVars, now, storeVars, parserVars>>

\* await handleUpdate(update) returns or throws: the exception is logged, the
\* for loop goes on, and after the last update the next poll is scheduled
HandlerReturn(ok) ==
  /\ lpc = "handling"
  /\ IF idx < Len(batch)
     THEN /\ idx' = idx + 1
          /\ dispatched' = Append(dispatched, batch[idx + 1])
          /\ UNCHANGED <<lpc, timer>>
     ELSE /\ lpc' = "timer"
          /\ timer' = Interval
          /\ UNCHANGED <<idx, dispatched>>
  /\ handled' = Append(handled, IF ok THEN "returned" ELSE "threw")
  /\ UNCHANGED <<lastUpdateId, isPollingActive, retryCount, retryDelay, jitter,
                 fetchOffset, batch, consec, runBase, maxReturned, providerOk, lastFetch,
                 routerVars, now, storeVars, parserVars>>

\* FetchConflict giving up one conflict early: retryCount >= 10
FetchConflict_OffByOne(j) ==
  /\ lpc = "fetch"
  /\ retryCount' = retryCount + 1
  /\ jitter' = j
  /\ retryDelay' = Backoff(retryDelay, j)
  /\ IF retryCount' >= MaxRetries
     THEN /\ isPollingActive' = FALSE
          /\ lpc' = "stopped"
          /\ timer' = 0
     ELSE /\ lpc' = "timer"
          /\ timer' = retryDelay'
          /\ UNCHANGED isPollingActive
  /\ consec' = consec + 1
  /\ runBase' = IF consec = 0 THEN retryCount ELSE runBase
  /\ lastFetch' = "conflict"
  /\ UNCHANGED <<lastUpdateId, fetchOffset, batch, idx, dispatched, handled,
                 maxReturned, providerOk, routerVars, now, storeVars,
                 parserVars>>

\* FetchConflict without the return after isPollingActive = false
FetchConflict_NoReturn(j) ==
  /\ lpc = "fetch"
  /\ retryCount' = retryCount + 1
  /\ jitter' = j
  /\ retryDelay' = Backoff(retryDelay, j)
  /\ isPollingActive' = IF retryCount' > MaxRetries THEN FALSE
                        ELSE isPollingActive
  /\ lpc' = "timer"
  /\ timer' = retryDelay'
  /\ consec' = consec + 1
  /\ runBase' = IF consec = 0 THEN retryCount ELSE runBase
  /\ lastFetch' = "conflict"
  /\ UNCHANGED <<lastUpdateId, fetchOffset, batch, idx, dispatched, handled,
                 maxReturned, providerOk, routerVars, now, storeVars,
                 parserVars>>

\* getUpdates throws 'Conflict: terminated by other getUpdates request'
FetchConflict(j) ==
  /\ lpc = "fetch"
  /\ retryCount' = retryCount + 1
  /\ jitter' = j
  /\ retryDelay' = Backoff(retryDelay, j)
  /\ IF retryCount' > MaxRetries
     THEN /\ isPollingActive' = FALSE
          /\ lpc' = "stopped"
          /\ timer' = 0
     ELSE /\ lpc' = "timer"
          /\ timer' = retryDelay'
          /\ UNCHANGED isPollingActive
  /\ consec' = consec + 1
  /\ runBase' = IF consec = 0 THEN retryCount ELSE runBase
  /\ lastFetch' = "conflict"
  /\ UNCHANGED <<lastUpdateId, fetchOffset, batch, idx, dispatched, handled,
                 maxReturned, providerOk, routerVars, now, storeVars,
                 parserVars>>

\* FetchError without the setTimeout of the else branch: pollOnce returns and
\* nothing calls it again
FetchError_NoTimer ==
  /\ lpc = "fetch"
  /\ lpc' = "stopped"
  /\ timer' = 0
  /\ consec' = 0 /\ runBase' = 0
  /\ lastFetch' = "error"
  /\ UNCHANGED <<lastUpdateId, isPollingActive, retryCount, retryDelay,
                 jitter, fetchOffset, batch, idx, dispatched, handled,
                 maxReturned, providerOk, routerVars, now, storeVars,
                 parserVars>>

\* FetchError rescheduling with setTimeout(pollOnce, retryDelay)
FetchError_BackoffDelay ==
  /\ lpc = "fetch"
  /\ lpc' = "timer"
  /\ timer' = retryDelay
  /\ consec' = 0 /\ runBase' = 0
  /\ lastFetch' = "error"
  /\ UNCHANGED <<lastUpdateId, isPollingActive, retryCount, retryDelay,
                 jitter, fetchOffset, batch, idx, dispatched, handled,
                 maxReturned, providerOk, routerVars, now, storeVars,
                 parserVars>>

\* getUpdates throws any other error: retry at the standard interval
FetchError ==
  /\ lpc = "fetch"
  /\ lpc' = "timer"
  /\ timer' = Interval
  /\ consec' = 0 /\ runBase' = 0
  /\ lastFetch' = "error"
  /\ UNCHANGED <<lastUpdateId, isPollingActive, retryCount, retryDelay,
                 jitter, fetchOffset, batch, idx, dispatched, handled,
                 maxReturned, providerOk, routerVars, now, storeVars,
                 parserVars>>

(* ----------------------- services/email-state.js ---------------------- *)
\* const expiryTime = 24 * 60 * 60 * 1000
ExpiryTime == 24 * 60 * 60 * 1000
\* the clock advances by a millisecond or by the retention window
TickSteps == {1, ExpiryTime}
\* the chatId arguments: numbers, strings and a missing id
ManagerChatIds == {Num(1), Str(1), Num(2), NoChat}
\* the objects a caller passes as emailData: two with equal content and a
\* third one; NoObject stands for a missing argument
ManagerObjects == {1, 2, 3}
NoObject == 0
ObjectData(obj) ==
  IF obj = NoObject THEN NoEmailData
  ELSE [originalEmail |-> FullEmail,
        questions |-> IF obj = 3 THEN <<"Q1", "Q2">> ELSE <<"Q1">>,
        timestamp |-> 0]
\* emailData.timestamp = now: the assignment is to the argument object, so
\* every entry of the Map that refers to that object shows the new value
Stamp(m, refs, obj, t) ==
  {IF MapGet(refs, e.key) = obj
   THEN [e EXCEPT !.val.timestamp = t]
   ELSE e : e \in m}
\* return value null / undefined
Null == [found |-> FALSE, val |-> NoEmailData]
Found(data) == [found |-> TRUE, val |-> data]

\* Date.now() has advanced
Tick(d) ==
  /\ ticks < MaxTicks
  /\ ticks' = ticks + 1
  /\ now' = now + d
  /\ sop' = [op |-> "tick", chat |-> NoChat, data |-> NoEmailData]
  /\ ret' = Null
  /\ UNCHANGED <<managerEmails, managerObjects, routerVars, loopVars,
                 parserVars>>

\* EmailStateManager.storeEmail(chatId, emailData), emailData the object obj
storeEmail(chatId, obj) ==
  LET data == ObjectData(obj) IN
  /\ sop' = [op |-> "store", chat |-> chatId, data |-> data]
  /\ ret' = Null
  /\ IF FalsyId(chatId) \/ obj = NoObject
     THEN UNCHANGED <<managerEmails, managerObjects>>
     ELSE /\ managerEmails' =
               MapSet(Stamp(managerEmails, managerObjects, obj, now),
                      String(chatId), [data EXCEPT !.timestamp = now])
          /\ managerObjects' = MapSet(managerObjects, String(chatId), obj)
  /\ UNCHANGED <<now, ticks, routerVars, loopVars, parserVars>>

\* getEmail expiring an entry at exactly 24 hours: >= instead of >
getEmail_ExpiresAtLimit(chatId) ==
  /\ sop' = [op |-> "get", chat |-> chatId, data |-> NoEmailData]
  /\ IF FalsyId(chatId) \/ ~MapHas(managerEmails, String(chatId))
     THEN ret' = Null /\ UNCHANGED <<managerEmails, managerObjects>>
     ELSE LET data == MapGet(managerEmails, String(chatId))
          IN IF now - data.timestamp >= ExpiryTime
             THEN /\ managerEmails' = MapDelete(managerEmails, String(chatId))
                  /\ managerObjects' =
                       MapDelete(managerObjects, String(chatId))
                  /\ ret' = Null
             ELSE /\ ret' = Found(data)
                  /\ UNCHANGED <<managerEmails, managerObjects>>
  /\ UNCHANGED <<now, ticks, routerVars, loopVars, parserVars>>

\* EmailStateManager.getEmail(chatId)
getEmail(chatId) ==
  /\ sop' = [op |-> "get", chat |-> chatId, data |-> NoEmailData]
  /\ IF FalsyId(chatId) \/ ~MapHas(managerEmails, String(chatId))
     THEN ret' = Null /\ UNCHANGED <<managerEmails, managerObjects>>
     ELSE LET data == MapGet(managerEmails, String(chatId))
          IN IF now - data.timestamp > ExpiryTime
             THEN /\ managerEmails' = MapDelete(managerEmails, String(chatId))
                  /\ managerObjects' =
                       MapDelete(managerObjects, String(chatId))
                  /\ ret' = Null
             ELSE /\ ret' = Found(data)
                  /\ UNCHANGED <<managerEmails, managerObjects>>
  /\ UNCHANGED <<now, ticks, routerVars, loopVars, parserVars>>

\* EmailStateManager.clearEmail(chatId)
clearEmail(chatId) ==
  /\ sop' = [op |-> "clear", chat |-> chatId, data |-> NoEmailData]
  /\ ret' = Null
  /\ IF FalsyId(chatId)
     THEN UNCHANGED <<managerEmails, managerObjects>>
     ELSE /\ managerEmails' = MapDelete(managerEmails, String(chatId))
          /\ managerObjects' = MapDelete(managerObjects, String(chatId))
  /\ UNCHANGED <<now, ticks, routerVars, loopVars, parserVars>>

(* ------------------ applications of the parser functions --------------- *)
\* the question texts and the answer texts of the applications
QuestionTexts == {"Q1", "Q2", "Q3"}
AnswerTexts == {<<>>, <<"y">>, <<"n">>}
QuestionArgs == SeqsUpTo(QuestionTexts, MaxQuestions)
\* objects with some of the keys 0..MaxIndex
AnswerArgs ==
  UNION {{ {[key |-> k, val |-> f[k]] : k \in K} : f \in [K -> AnswerTexts]} :
           K \in SUBSET (0..MaxIndex)}

\* the call matchAnswersToQuestions(pQuestions, pAnswers)
Match ==
  /\ ppc = "input"
  /\ pFun = "matchAnswersToQuestions"
  /\ ppc' = "matchAnswersToQuestions"
  /\ pResult' = matchAnswersToQuestions(pQuestions, pAnswers)
  /\ UNCHANGED <<pQuestions, pAnswers, pText, pFun, pType, routerVars, now,
                 loopVars, storeVars>>

\* the characters of the message texts
TextChars == {"1", "0", ".", "-", " ", "a", "\n"}
\* the message texts of the applications
Texts == SeqsUpTo(TextChars, MaxTextLen)

\* the call parseNumberedAnswers(pText)
Parse ==
  /\ ppc = "input"
  /\ pFun = "parseNumberedAnswers"
  /\ ppc' = "parseNumberedAnswers"
  /\ pResult' = parseNumberedAnswersOf(pType, pText)
  /\ UNCHANGED <<pQuestions, pAnswers, pText, pFun, pType, routerVars, now,
                 loopVars, storeVars>>

\* the characters of the questions that are formatted
QuestionChars == {"a", "-", " "}
\* non-empty single-line questions without white space at either end
SingleLineQuestions ==
  {q \in SeqsUpTo(QuestionChars, MaxQuestionLen) :
     /\ q # <<>>
     /\ q[1] \notin WsChars
     /\ q[Len(q)] \notin WsChars}
FormatArgs == SeqsUpTo(SingleLineQuestions, MaxQuestions)

\* the call parseNumberedAnswers(formatNumberedQuestions(pQuestions))
FormatAndParse ==
  /\ ppc = "input"
  /\ pFun = "formatNumberedQuestions"
  /\ ppc' = "formatNumberedQuestions"
  /\ pText' = formatNumberedQuestions(pQuestions)
  /\ pResult' = parseNumberedAnswers(pText')
  /\ UNCHANGED <<pQuestions, pAnswers, pFun, pType, routerVars, now,
                 loopVars, storeVars>>

\* more than 24 hours pass between two steps of the router
Elapse ==
  /\ now < MaxElapses * (ExpiryTime + 1)
  /\ now' = now + ExpiryTime + 1
  /\ UNCHANGED <<routerVars, loopVars, storeVars, parserVars>>

InitRouter ==
  /\ activeEmails = {}
  /\ hpc = "idle"
  /\ hUpdate = NoUpdate
  /\ emailData = NoEmailData
  /\ draftText = ""
  /\ hStatus = 0
  /\ genCalls = <<>>
  /\ genResult = "none"
  /\ draftCalls = <<>>
  /\ sent = <<>>
  /\ rpc = "idle"
  /\ rChat = NoChat
  /\ rStatus = 0
  /\ regSent = <<>>
  /\ regs = 0
  /\ served = {}
  /\ hLive = FALSE
  /\ now = 0

InitLoop ==
  /\ lastUpdateId = 0
  /\ isPollingActive = FALSE
  /\ retryCount = 0
  /\ retryDelay = BaseDelay
  /\ lpc = "idle"
  /\ timer = 0
  /\ jitter = 0
  /\ fetchOffset = 0
  /\ batch = <<>>
  /\ idx = 0
  /\ dispatched = <<>>
  /\ consec = 0
  /\ runBase = 0
  /\ handled = <<>>
  /\ maxReturned = 0
  /\ providerOk = TRUE
  /\ lastFetch = "none"

InitStore ==
  /\ managerEmails = {}
  /\ managerObjects = {}
  /\ sop = [op |-> "none", chat |-> NoChat, data |-> NoEmailData]
  /\ ret = Null
  /\ ticks = 0

\* the process after start-up: no parser call is under way
Init ==
  /\ InitRouter /\ InitLoop /\ InitStore
  /\ pQuestions = <<>>
  /\ pAnswers = {}
  /\ pResult = {}
  /\ ppc = "input"
  /\ pText = <<>>
  /\ pFun = "none"
  /\ pType = "string"

\* the arguments of a parser call
InitParser ==
  /\ InitRouter /\ InitLoop /\ InitStore
  /\ pResult = {}
  /\ ppc = "input"
  /\ \/ /\ pFun = "matchAnswersToQuestions"
        /\ pQuestions \in QuestionArgs
        /\ pAnswers \in AnswerArgs
        /\ pText = <<>>
        /\ pType = "string"
     \/ /\ pFun = "formatNumberedQuestions"
        /\ pQuestions \in FormatArgs
        /\ pAnswers = {}
        /\ pText = <<>>
        /\ pType = "string"
     \/ /\ pFun = "parseNumberedAnswers"
        /\ \/ pType = "string" /\ pText \in Texts
           \/ pType \in NonStringTypes /\ pText = <<>>
        /\ pQuestions = <<>>
        /\ pAnswers = {}

Next ==
  \/ \E update \in Updates : StartHandle(update)
  \/ \E reply \in Replies : GenerateOk(reply)
  \/ GenerateThrows
  \/ \E ok \in BOOLEAN : SendReplyReturn(ok)
  \/ \E ok \in BOOLEAN : DraftReturn(ok)
  \/ \E ok \in BOOLEAN : NotifySavedReturn(ok)
  \/ \E ok \in BOOLEAN : NotifyFailedReturn(ok)
  \/ \E ok \in BOOLEAN : ErrNoticeReturn(ok)
  \/ \E ok \in BOOLEAN : NoActiveReturn(ok)
  \/ \E chatId \in RegChatIds \cup {NoChat},
        questions \in QuestionLists \cup {<<>>},
        email \in Emails \cup {NoEmail} : Register(chatId, questions, email)
  \/ \E ok \in BOOLEAN : RegisterReturn(ok)

\* the router while the clock runs
NextClock ==
  \/ Next
  \/ Elapse

vars == <<routerVars, now, loopVars, storeVars, parserVars>>

NextLoop ==
  \/ StartPolling
  \/ \E outcome \in {"ok", "refused", "throws"} : DeleteWebhookReturn(outcome)
  \/ TimerFire
  \/ \E result \in Batches : FetchSuccess(result)
  \/ \E ok \in BOOLEAN : HandlerReturn(ok)
  \/ \E j \in Jitters : FetchConflict(j)
  \/ FetchError

NextStore ==
  \/ \E d \in TickSteps : Tick(d)
  \/ \E chatId \in ManagerChatIds,
        obj \in ManagerObjects \cup {NoObject} : storeEmail(chatId, obj)
  \/ \E chatId \in ManagerChatIds : getEmail(chatId)
  \/ \E chatId \in ManagerChatIds : clearEmail(chatId)

NextParser ==
  \/ Match
  \/ Parse
  \/ FormatAndParse

Spec == Init /\ [][Next]_vars

SpecStore == Init /\ [][NextStore]_vars

SpecParser == InitParser /\ [][NextParser]_vars

SpecLoop == Init /\ [][NextLoop]_vars

SpecClock == Init /\ [][NextClock]_vars

\* the awaited calls of the loop return and its timers fire
FetchReturns ==
  \/ \E result \in Batches : FetchSuccess(result)
  \/ \E j \in Jitters : FetchConflict(j)
  \/ FetchError
LoopFairness ==
  /\ WF_vars(\E outcome \in {"ok", "refused", "throws"} :
               DeleteWebhookReturn(outcome))
  /\ WF_vars(TimerFire)
  /\ WF_vars(FetchReturns)
  /\ WF_vars(\E ok \in BOOLEAN : HandlerReturn(ok))

SpecLoopFair == Init /\ [][NextLoop]_vars /\ LoopFairness


(* ======================= properties of the router ====================== *)
\* the kinds of the messages of a sendMessage log, in order
Kinds(log) == [i \in 1..Len(log) |-> log[i].kind]

\* a handling is in progress
Handling(pc) == pc \notin {"idle", "done"}

\* the update is classified as an answer candidate
AnswerCandidate(update) ==
  /\ update.update_id # 0
  /\ update.hasMessage
  /\ update.text # <<>>
  /\ update.text[1] # "/"

\* C1: whenever the reply generator succeeded, the session's state is absent
\* at the step that ends the handling of the update, whatever the outcomes of
\* the reply send, the draft and the follow-up were.
C1_GenSuccessAlwaysClears ==
  [][(Handling(hpc) /\ hpc' = "done" /\ genResult' = "ok")
       => ~MapHas(activeEmails', hUpdate'.chat)]_vars

\* C2: once the reply generator has thrown, the session still has its state,
\* no reply message was sent, no draft was attempted, and the only message
\* sent is the error notice to the session.
C2_GenFailureKeepsState ==
  genResult = "throw" =>
    /\ MapHas(activeEmails, hUpdate.chat)
    /\ draftCalls = <<>>
    /\ Kinds(sent) = <<"error_notice">>
    /\ sent[1].chat = hUpdate.chat
    /\ Len(genCalls) = 1

C2_Witness ==
  /\ hpc = "done"
  /\ genResult = "throw"
  /\ sent[1].status = "ok"
  /\ MapHas(activeEmails, hUpdate.chat)

\* C3: an answer candidate for a session without a stored state sends the
\* no-active-email notice and nothing else, calls neither the generator nor
\* the draft store, and no step of its handling changes the state store.
C3_NoStateOnlyNotice ==
  /\ [][(~Handling(hpc) /\ Handling(hpc') /\ AnswerCandidate(hUpdate')
           /\ ~MapHas(activeEmails, hUpdate'.chat))
          => /\ hpc' = "noActive"
             /\ genCalls' = <<>> /\ draftCalls' = <<>>
             /\ Kinds(sent') = <<"no_active">>
             /\ sent'[1].chat = hUpdate'.chat
             /\ activeEmails' = activeEmails]_vars
  /\ [][(hpc = "noActive" /\ hpc' # hpc)
          => /\ hpc' = "done"
             /\ genCalls' = <<>> /\ draftCalls' = <<>>
             /\ Kinds(sent') = <<"no_active">>
             /\ activeEmails' = activeEmails]_vars

C3_Witness ==
  /\ hpc = "done"
  /\ AnswerCandidate(hUpdate)
  /\ Kinds(sent) = <<"no_active">>
  /\ sent[1].status = "ok"
  /\ activeEmails # {}
  /\ ~MapHas(activeEmails, hUpdate.chat)


(* ==================== properties of the polling loop =================== *)
\* the loop was started and has given up
Stopped == lpc \notin {"idle", "deleteWebhook"} /\ ~isPollingActive

\* the step is the conflict branch of pollOnce
ConflictStep == consec' = consec + 1

\* the factor 1.5 never rounds
ExactBackoff == retryDelay < MaxDelay => retryDelay % 2 = 0

\* C4: in a run of consecutive conflicts that began with reset counters, a
\* retry is scheduled (or already fetching) after each of the first 10
\* conflicts, and after the 11th the loop is STOPPED with no retry scheduled.
C4_StopsOnEleventhConflict ==
  (consec >= 1 /\ runBase = 0) =>
    IF consec <= 10
    THEN /\ isPollingActive
         /\ \/ lpc = "timer" /\ timer = retryDelay
            \/ lpc = "fetch" /\ timer = 0
    ELSE /\ consec = 11
         /\ Stopped /\ lpc = "stopped" /\ timer = 0

C4_Witness == consec = 11 /\ runBase = 0 /\ lpc = "stopped"

\* C5: once STOPPED the loop stays STOPPED: no fetch is in flight, no handler
\* runs, no poll is scheduled, and no step changes the cursor, issues a fetch
\* or dispatches an update.
C5_StoppedIsPermanent ==
  /\ [](Stopped => lpc = "stopped" /\ timer = 0)
  /\ [][Stopped => /\ Stopped'
                   /\ lpc' = "stopped" /\ timer' = 0
                   /\ lastUpdateId' = lastUpdateId
                   /\ fetchOffset' = fetchOffset
                   /\ dispatched' = dispatched]_vars

C5_Witness == Stopped /\ lpc = "stopped" /\ lastUpdateId > 0

\* C6: each conflict sets the delay to min(60s, 1.5 x previous delay) plus a
\* jitter in [0, 1s], the previous delay being 5s when no conflict has been
\* counted; every backoff delay that is scheduled lies in [7.5s, 61s].
C6_BackoffFormula ==
  /\ [](retryCount = 0 => retryDelay = 5000 * Ms)
  /\ [][ConflictStep =>
          (2 * retryDelay' - Min(2 * 60000 * Ms, 3 * retryDelay))
             \in 0..(2 * 1000 * Ms)]_vars
  /\ []((lpc = "timer" /\ consec >= 1) =>
          /\ timer = retryDelay
          /\ timer >= 7500 * Ms
          /\ timer <= 61000 * Ms)

C6_Witness ==
  /\ lpc = "timer" /\ consec = 3
  /\ timer > 60000 * Ms

\* C7: with zero jitter, a scheduled backoff delay is at most 60s and not
\* smaller than the backoff delay scheduled before it.
C7_MonotoneCappedBackoff ==
  [][(ConflictStep /\ lpc' = "timer" /\ jitter' = 0) =>
       /\ timer' <= 60000 * Ms
       /\ (consec >= 1 /\ jitter = 0) => timer' >= retryDelay]_vars

C7_Witness ==
  /\ lpc = "timer" /\ consec = 10 /\ runBase = 0
  /\ jitter = 0 /\ timer = 60000 * Ms


(* =================== properties of the state manager =================== *)
\* the entries the manager holds for a session
EntriesOf(m, chatId) == {e \in m : e.key = String(chatId)}

\* C8: getEmail on an entry stored more than 24 hours ago returns null and
\* removes the entry, so that the next getEmail finds no entry and returns
\* null too; on an entry stored 24 hours ago or less it returns the entry and
\* leaves the store as it was.
C8_LazyExpiry ==
  [][(sop'.op = "get" /\ ~FalsyId(sop'.chat)) =>
       LET k == String(sop'.chat) IN
       IF ~MapHas(managerEmails, k)
       THEN ret' = Null /\ managerEmails' = managerEmails
       ELSE IF now - MapGet(managerEmails, k).timestamp > 24 * 3600 * 1000
            THEN /\ ret' = Null
                 /\ ~MapHas(managerEmails', k)
                 /\ \A e \in managerEmails : e.key # k => e \in managerEmails'
            ELSE /\ ret' = Found(MapGet(managerEmails, k))
                 /\ managerEmails' = managerEmails]_vars

\* an entry is returned at the age of exactly 24 hours
C8_Witness ==
  /\ sop.op = "get"
  /\ ret.found
  /\ now - ret.val.timestamp = 24 * 3600 * 1000

\* C9: there is at most one state per session id, and a store for a session
\* leaves exactly the new questions and email under that session, stamped
\* with the current time.
C9_OneStatePerSession ==
  /\ [](\A chatId \in ManagerChatIds :
          Cardinality(EntriesOf(managerEmails, chatId)) <= 1)
  /\ [][(sop'.op = "store" /\ ~FalsyId(sop'.chat)
           /\ sop'.data # NoEmailData) =>
          EntriesOf(managerEmails', sop'.chat) =
            {[key |-> String(sop'.chat),
              val |-> [originalEmail |-> sop'.data.originalEmail,
                       questions |-> sop'.data.questions,
                       timestamp |-> now']]}]_vars

\* a state replaced by a later store with other questions
C9_Witness ==
  /\ sop.op = "store" /\ sop.chat = Str(1)
  /\ sop.data.questions = <<"Q1">>
  /\ now > 0
  /\ EntriesOf(managerEmails, Num(1)) =
       {[key |-> Str(1),
         val |-> [originalEmail |-> FullEmail, questions |-> <<"Q1">>,
                  timestamp |-> now]]}
  /\ MapHas(managerEmails, Str(2))

(* ======================= properties of the parser ====================== *)
\* no text occurs twice in the sequence
Distinct(q) == \A i, j \in 1..Len(q) : q[i] = q[j] => i = j

\* C10: for distinct questions the result of matchAnswersToQuestions is
\* exactly the set of entries questions[i] -> answers[i + 1] over the
\* positions i whose answers[i + 1] is present and non-empty.
C10_MatchByPosition ==
  (ppc = "matchAnswersToQuestions" /\ Distinct(pQuestions)) =>
    pResult =
      {[key |-> pQuestions[i + 1], val |-> MapGet(pAnswers, i + 1)] :
         i \in {n \in 0..(Len(pQuestions) - 1) :
                  /\ MapHas(pAnswers, n + 1)
                  /\ MapGet(pAnswers, n + 1) # <<>>}}

\* an out-of-range answer is dropped and an unanswered question is omitted
C10_Witness ==
  /\ ppc = "matchAnswersToQuestions"
  /\ pQuestions = <<"Q1", "Q2">>
  /\ pAnswers = {[key |-> 1, val |-> <<"y">>], [key |-> 2, val |-> <<>>],
                 [key |-> 3, val |-> <<"n">>]}
  /\ pResult = {[key |-> "Q1", val |-> <<"y">>]}

(* ======================= properties of the parser ====================== *)
\* the separators of a numbered answer line: '.', ':', '-', ')' and white space
Separators == {".", ":", "-", ")", " ", "\t", "\n", "\r"}
\* the ways to read line as <N><sep><answer>: d digits, s separator characters
NumberedForms(line) ==
  {f \in (1..Len(line)) \X (1..Len(line)) :
     /\ f[1] + f[2] < Len(line)
     /\ \A i \in 1..f[1] : line[i] \in DigitChars
     /\ ParseInt(SubSeq(line, 1, f[1])) > 0
     /\ \A i \in (f[1] + 1)..(f[1] + f[2]) : line[i] \in Separators
     /\ \A i \in (f[1] + f[2] + 1)..Len(line) : line[i] \notin LineTerminators
     /\ Trim(SubSeq(line, f[1] + f[2] + 1, Len(line))) # <<>>}
FormNumber(line, f) == ParseInt(SubSeq(line, 1, f[1]))
FormAnswer(line, f) == SubSeq(line, f[1] + f[2] + 1, Len(line))
\* parseNumberedAnswers was applied to a single line
ParsedLine ==
  /\ ppc = "parseNumberedAnswers"
  /\ \A i \in 1..Len(pText) : pText[i] \notin LineTerminators

(* C11: a line made of a positive number, one or more separator characters
   and an answer that has no line break and does not begin with a separator
   character or white space is parsed to that number mapped to the trimmed
   answer. *)
C11_SeparatedAnswerParsed ==
  ParsedLine =>
    \A f \in NumberedForms(pText) :
      FormAnswer(pText, f)[1] \notin Separators =>
        /\ MapHas(pResult, FormNumber(pText, f))
        /\ MapGet(pResult, FormNumber(pText, f)) = Trim(FormAnswer(pText, f))

C11_Witness ==
  /\ ParsedLine
  /\ pText = <<"1", "0", "-", "a">>
  /\ pResult = {[key |-> 10, val |-> <<"a">>]}

\* C11 as stated: every non-blank answer, also one that begins with a
\* separator character
C11_AnyAnswerParsed ==
  ParsedLine =>
    \A f \in NumberedForms(pText) :
      /\ MapHas(pResult, FormNumber(pText, f))
      /\ MapGet(pResult, FormNumber(pText, f)) = Trim(FormAnswer(pText, f))


(* ================= properties of the dispatch of a batch =============== *)
(* C12: when the handler of an update throws, the next update of the batch is
   dispatched; after the last update the whole batch has been dispatched and
   the next poll is scheduled at the standard interval. *)
C12_HandlerFailureGoesOn ==
  [][(lpc = "handling" /\ handled' = Append(handled, "threw")) =>
       IF idx < Len(batch)
       THEN /\ lpc' = "handling"
            /\ dispatched' = Append(dispatched, batch[idx + 1])
       ELSE /\ lpc' = "timer"
            /\ timer' = Interval
            /\ dispatched' = batch]_vars

C12_Witness ==
  /\ lpc = "timer"
  /\ timer = Interval
  /\ Len(batch) = 2
  /\ handled = <<"threw", "returned">>
  /\ dispatched = batch

\* the update ids of q never descend
Ascending(q) == \A i, j \in 1..Len(q) : i < j => q[i] <= q[j]
\* the handleUpdate calls of the batch that have not ended yet
Running == Len(dispatched) - Len(handled)

(* C13: the updates of a batch are dispatched in the order the provider
   returned them, which is ascending when the batch is, and one at a time: a
   handler is started only when every earlier handler of the batch has
   returned or thrown. *)
C13_ReceiptOrderOneAtATime ==
  /\ dispatched = SubSeq(batch, 1, Len(dispatched))
  /\ Ascending(batch) => Ascending(dispatched)
  /\ lpc = "handling" => Len(dispatched) = idx /\ Running = 1
  /\ lpc # "handling" => Running = 0

C13_Witness ==
  /\ lpc = "handling"
  /\ batch = <<3, 1>>
  /\ dispatched = <<3, 1>>
  /\ handled = <<"returned">>

\* C13 as stated: the dispatch order is ascending whatever the provider returned
C13_AscendingOneAtATime ==
  /\ Ascending(dispatched)
  /\ lpc = "handling" => Running = 1
  /\ lpc # "handling" => Running = 0

(* ======================= properties of the cursor ====================== *)
(* C14: as long as the provider has returned only ids at or above the
   requested offset, every fetch requests offset lastUpdateId + 1, and that
   offset is greater than every update id any earlier fetch has returned. *)
C14_OffsetBeyondReturned ==
  (providerOk /\ lpc = "fetch") =>
    /\ fetchOffset = lastUpdateId + 1
    /\ fetchOffset > maxReturned

C14_Witness ==
  /\ providerOk
  /\ lpc = "fetch"
  /\ maxReturned = 3
  /\ fetchOffset = 4
  /\ retryCount > 0

(* ================== properties of the classification =================== *)
(* C15: an update whose text is non-empty and does not begin with '/' always
   goes on as an answer. For a session with a state the generator is called
   with the correlated parsed answers, an empty map when no line is numbered,
   and nothing is sent before; when the generation and every send succeeded,
   the state is gone and the only messages are the reply and one draft
   notice. *)
C15_NonCommandTextIsAnswers ==
  /\ [][(~Handling(hpc) /\ hUpdate' # hUpdate /\ AnswerCandidate(hUpdate'))
          => /\ Handling(hpc')
             /\ MapHas(activeEmails, hUpdate'.chat) =>
                  /\ hpc' = "gen"
                  /\ Len(genCalls') = 1
                  /\ parseNumberedAnswers(hUpdate'.text) = {}
                       => genCalls'[1].answers = {}
                  /\ sent' = <<>>]_vars
  /\ [][(Handling(hpc) /\ hpc' = "done" /\ genResult' = "ok"
           /\ \A i \in 1..Len(sent') : sent'[i].status = "ok")
          => /\ ~MapHas(activeEmails', hUpdate'.chat)
             /\ Kinds(sent') \in {<<"reply", "draft_saved">>,
                                  <<"reply", "draft_failed">>}]_vars

C15_Witness ==
  /\ hpc = "done"
  /\ genResult = "ok"
  /\ hUpdate.text = <<"h", "i">>
  /\ Len(genCalls) = 1
  /\ genCalls[1].answers = {}
  /\ Kinds(sent) = <<"reply", "draft_saved">>
  /\ \A i \in 1..Len(sent) : sent[i].status = "ok"
  /\ ~MapHas(activeEmails, hUpdate.chat)

(* ==================== properties of the draft notices ================== *)
\* the message kinds of a sendMessage log
KindSet(log) == {log[i].kind : i \in 1..Len(log)}
\* the createDraft call of this handling has returned
DraftEnded == draftCalls # <<>> /\ draftCalls[1].status # "pending"

(* C16: once the createDraft call has ended, exactly one draft notice is sent:
   the draft-saved notice exactly when the call succeeded, the
   could-not-be-saved notice exactly when it failed, and never both. *)
C16_ExactlyOneDraftNotice ==
  DraftEnded =>
    /\ ("draft_saved" \in KindSet(sent)) = (draftCalls[1].status = "ok")
    /\ ("draft_failed" \in KindSet(sent)) = (draftCalls[1].status = "failed")
    /\ ~({"draft_saved", "draft_failed"} \subseteq KindSet(sent))

(* C17: an answer candidate that arrives more than 24 hours after the state
   of its session was registered is handled as if there were no state: the
   generator is not called and the no-active-email notice is sent. *)
C17_ExpiredStateIsNoState ==
  [][(~Handling(hpc) /\ Handling(hpc') /\ AnswerCandidate(hUpdate')
        /\ MapHas(activeEmails, hUpdate'.chat)
        /\ now - MapGet(activeEmails, hUpdate'.chat).timestamp > ExpiryTime)
       => /\ hpc' = "noActive"
          /\ genCalls' = <<>>
          /\ Kinds(sent') = <<"no_active">>]_vars

(* ================== properties of the polling schedule ================= *)
(* C18: at most one handleUpdate call is running at any time, and the next
   poll is scheduled, and the next fetch issued, only when every update of
   the batch has been dispatched and its handler has ended. *)
C18_OneHandlerAtATime ==
  /\ [](Running \in {0, 1})
  /\ [](lpc \in {"timer", "fetch"} =>
          /\ dispatched = batch
          /\ Len(handled) = Len(batch))
  /\ [][(lpc # "fetch" /\ lpc' = "fetch") => Running = 0]_vars

C18_Witness ==
  /\ lpc = "handling"
  /\ fetchOffset = 3
  /\ Len(batch) = 2
  /\ idx = 2
  /\ Running = 1

(* C19: when every fetch and every handler call returns and every timer
   fires, a loop that is active and not fetching, whether it waits for a
   timer after a fetch error or is handling a batch, issues a fetch again. *)
C19_LoopKeepsPolling ==
  (isPollingActive /\ lpc # "fetch") ~> (lpc = "fetch")

C19_Witness ==
  /\ isPollingActive
  /\ lpc = "fetch"
  /\ consec = 0
  /\ retryCount > 0

(* C20: the loop is stopped only when its most recent 11 fetch attempts all
   failed with a conflict. *)
C20_StopOnlyAfterElevenInARow ==
  Stopped => consec >= MaxRetries + 1

(* C21: after a successful fetch, of an empty batch or not, the retry
   counter is 0 and the delay is 5 s, also while the updates are handled; the
   counter grows only by one per conflict, so the conflict after a success
   backs off from the base delay, and the loop stops only at the 11th
   conflict since the last success. *)
C21_SuccessResetsCounters ==
  /\ [](lastFetch = "success" => retryCount = 0 /\ retryDelay = BaseDelay)
  /\ [][retryCount' # retryCount =>
          \/ retryCount' = 0 /\ lastFetch' = "success"
          \/ retryCount' = retryCount + 1 /\ lastFetch' = "conflict"]_vars
  /\ [][(lastFetch = "success" /\ lastFetch' = "conflict") =>
          /\ retryCount' = 1
          /\ retryDelay' = Backoff(BaseDelay, jitter')
          /\ ~Stopped']_vars
  /\ [][(~Stopped /\ Stopped') => retryCount' = MaxRetries + 1]_vars

C21_Witness ==
  /\ lastFetch = "conflict"
  /\ maxReturned = 2
  /\ retryCount = 1
  /\ retryDelay = Backoff(BaseDelay, jitter)
  /\ lpc = "timer"

(* C22: a fetch that fails with an error other than a conflict leaves the
   retry counter, the delay and the cursor as they were, dispatches no update,
   and schedules the next poll at the standard interval. *)
C22_OtherErrorFrame ==
  [][(lpc = "fetch" /\ lpc' # "fetch" /\ lastFetch' = "error") =>
       /\ retryCount' = retryCount
       /\ retryDelay' = retryDelay
       /\ lastUpdateId' = lastUpdateId
       /\ isPollingActive' = isPollingActive
       /\ dispatched' = <<>>
       /\ lpc' = "timer"
       /\ timer' = Interval]_vars

C22_Witness ==
  /\ lastFetch = "error"
  /\ lpc = "timer"
  /\ timer = Interval
  /\ retryCount = 3
  /\ retryDelay > Interval
  /\ lastUpdateId = 2

(* C23: the cursor lastUpdateId never decreases, whatever ids a successful
   fetch returns, and a failed fetch and a successful fetch of an empty batch
   leave it unchanged. *)
C23_CursorIsHighWaterMark ==
  /\ [][lastUpdateId' >= lastUpdateId]_vars
  /\ [][(lpc = "fetch" /\ lpc' # "fetch"
           /\ (lastFetch' # "success" \/ batch' = <<>>))
          => lastUpdateId' = lastUpdateId]_vars

(* ================ properties of the state of a session ================= *)
(* C24: once a reply has been generated for the stored state of a session, an
   answer candidate of that session that arrives without a new registration
   gets the no-active-email notice and does not call the generator. *)
C24_OneGenerationPerRegistration ==
  [][(~Handling(hpc) /\ Handling(hpc') /\ AnswerCandidate(hUpdate')
        /\ hUpdate'.chat \in served)
       => /\ hpc' = "noActive"
          /\ genCalls' = <<>>]_vars

(* C25: a state registered for the session while its correlation is suspended
   is not removed by that correlation: the handler removes only the state it
   read. *)
C25_RemovesOnlyTheStateRead ==
  [][(Handling(hpc) /\ ~hLive /\ MapHas(activeEmails, hUpdate.chat))
       => MapHas(activeEmails', hUpdate.chat)]_vars

(* C26: a state registered under a chat id is found for an update whose chat
   id is equal to it as a string, whether the ids were given as numbers or as
   strings. *)
C26_FoundWhenEqualAsStrings ==
  [][(~Handling(hpc) /\ Handling(hpc') /\ AnswerCandidate(hUpdate')
        /\ \E e \in activeEmails : String(e.key) = String(hUpdate'.chat))
       => /\ hpc' = "gen"
          /\ Len(genCalls') = 1]_vars

(* ================= properties of the validation step =================== *)
\* the step of the handler that finds a state and calls the generator
FindsState ==
  /\ ~Handling(hpc) /\ Handling(hpc') /\ AnswerCandidate(hUpdate')
  /\ MapHas(activeEmails, hUpdate'.chat)
\* a step of the handler after the generator has thrown
AfterThrow ==
  /\ genResult' = "throw"
  /\ hpc' # hpc

(* C27: a failed generation leaves the stored state with the same questions
   and time stamp and with every email field that was present; only the
   missing subject, body or sender have been replaced by their placeholders
   in the stored record. *)
C27_FailedGenerationKeepsRecord ==
  /\ [][FindsState =>
          LET chat == hUpdate'.chat
              before == MapGet(activeEmails, chat)
              after == MapGet(activeEmails', chat)
          IN /\ MapHas(activeEmails', chat)
             /\ MapDelete(activeEmails', chat) = MapDelete(activeEmails, chat)
             /\ after.questions = before.questions
             /\ after.timestamp = before.timestamp
             /\ after.originalEmail.threadId = before.originalEmail.threadId
             /\ \A f \in {"subject", "body", "sender"} :
                  \/ after.originalEmail[f] = before.originalEmail[f]
                  \/ Falsy(before.originalEmail[f])]_vars
  /\ [][AfterThrow => activeEmails' = activeEmails]_vars

C27_Witness ==
  /\ hpc = "done"
  /\ genResult = "throw"
  /\ regs = 1
  /\ MapHas(activeEmails, hUpdate.chat)
  /\ MapGet(activeEmails, hUpdate.chat).originalEmail.subject = "[No Subject]"
  /\ MapGet(activeEmails, hUpdate.chat).originalEmail.sender = "a@x"

\* C27 as stated: the stored record is exactly as before the update
C27_FailedGenerationKeepsExactly ==
  /\ [][FindsState => activeEmails' = activeEmails]_vars
  /\ [][AfterThrow => activeEmails' = activeEmails]_vars

(* C28: a state that is found always leads to one generator call, and the
   email of that call has the subject, the body and the sender of the stored
   email, with "[No Subject]", the empty string and "[Unknown Sender]" in the
   place of a missing one. *)
C28_PlaceholdersForMissingFields ==
  [][FindsState =>
       LET stored == MapGet(activeEmails, hUpdate'.chat).originalEmail
       IN /\ hpc' = "gen"
          /\ Len(genCalls') = 1
          /\ genCalls'[1].email.subject =
               (IF Falsy(stored.subject) THEN "[No Subject]"
                ELSE stored.subject)
          /\ genCalls'[1].email.body =
               (IF Falsy(stored.body) THEN "" ELSE stored.body)
          /\ genCalls'[1].email.sender =
               (IF Falsy(stored.sender) THEN "[Unknown Sender]"
                ELSE stored.sender)
          /\ genCalls'[1].email.threadId = stored.threadId
          /\ Undef \notin {genCalls'[1].email.subject,
                           genCalls'[1].email.body,
                           genCalls'[1].email.sender}]_vars

C28_Witness ==
  /\ genResult = "ok"
  /\ Len(genCalls) = 1
  /\ genCalls[1].email.subject = "Hello"
  /\ genCalls[1].email.body = ""
  /\ genCalls[1].email.sender = "[Unknown Sender]"

(* C29: the draft store receives the thread id of the email as the thread,
   its sender as the recipient, its subject as the subject and the generated
   reply text as the body. *)
C29_DraftStoreReceivesEmailFields ==
  draftCalls # <<>> =>
    /\ draftCalls[1].threadId = emailData.originalEmail.threadId
    /\ draftCalls[1].to = emailData.originalEmail.sender
    /\ draftCalls[1].subject = emailData.originalEmail.subject
    /\ draftCalls[1].body = draftText

(* ================= properties of the order of the steps ================ *)
\* the follow-up notices of the draft
FollowUps == {"draft_saved", "draft_failed"}
\* a step of the handler that removes the state of its chat
Clears ==
  /\ hpc' # hpc
  /\ MapHas(activeEmails, hUpdate.chat)
  /\ ~MapHas(activeEmails', hUpdate.chat)

(* C30: in one orchestration the reply is sent only after the generator was
   called and has succeeded, the draft is attempted only after the reply send
   has completed, a draft follow-up is sent only after the draft call has
   ended, and the state is cleared only after generation has succeeded, the
   draft call has ended and a follow-up has been delivered. *)
C30_OrderOfSteps ==
  /\ [](\A i \in 1..Len(sent) :
          sent[i].kind = "reply" =>
            /\ i = 1
            /\ Len(genCalls) = 1
            /\ genResult = "ok")
  /\ [](draftCalls # <<>> =>
          /\ sent # <<>>
          /\ sent[1].kind = "reply"
          /\ sent[1].status = "ok")
  /\ [](\A i \in 1..Len(sent) :
          sent[i].kind \in FollowUps => i > 1 /\ DraftEnded)
  /\ [][Clears =>
          /\ genResult = "ok"
          /\ DraftEnded
          /\ Len(sent') > 1
          /\ sent'[Len(sent')].kind \in FollowUps
          /\ sent'[Len(sent')].status = "ok"
          /\ hpc' = "done"]_vars

C30_Witness ==
  /\ hpc = "done"
  /\ genResult = "ok"
  /\ Kinds(sent) = <<"reply", "draft_failed">>
  /\ draftCalls[1].status = "failed"
  /\ sent[2].status = "ok"
  /\ ~MapHas(activeEmails, hUpdate.chat)
  /\ regs = 1

(* ============ properties of commands and updates without text ========== *)
\* a valid update whose message is a command, has no text, or is absent
CommandOrNoText(update) ==
  /\ update.update_id # 0
  /\ \/ ~update.hasMessage
     \/ update.text = <<>>
     \/ update.text[1] = "/"

(* C31: while the update being handled is a command or carries no text, the
   handler has finished at once with no state read, no generator call, no
   draft call and no chat message, and no step other than a registration
   changes the stored states. *)
C31_CommandAndNoTextDoNothing ==
  /\ [](CommandOrNoText(hUpdate) =>
          /\ hpc = "done"
          /\ emailData = NoEmailData
          /\ genCalls = <<>>
          /\ genResult = "none"
          /\ draftCalls = <<>>
          /\ sent = <<>>)
  /\ [][(CommandOrNoText(hUpdate') /\ regs' = regs)
          => activeEmails' = activeEmails]_vars

C31_Witness ==
  /\ hpc = "done"
  /\ hUpdate.update_id # 0
  /\ hUpdate.hasMessage
  /\ hUpdate.text = <<"/", "s">>
  /\ MapHas(activeEmails, hUpdate.chat)
  /\ sent = <<>>
  /\ genCalls = <<>>

(* ======================= frame of the state store ====================== *)
(* C32: a store with an absent session id or an absent state and a clear for
   a session without an entry change nothing, and a store, get or clear for
   one session leaves the entry of every other session as it was. *)
C32_StoreFrame ==
  /\ [][(sop'.op = "store"
           /\ (FalsyId(sop'.chat) \/ sop'.data = NoEmailData))
          => managerEmails' = managerEmails]_vars
  /\ [][(sop'.op = "clear"
           /\ (FalsyId(sop'.chat)
                 \/ EntriesOf(managerEmails, sop'.chat) = {}))
          => managerEmails' = managerEmails]_vars
  /\ [][sop'.op \in {"store", "get", "clear"} =>
          \A e \in managerEmails :
            e.key # String(sop'.chat) => e \in managerEmails']_vars

(* ================ lines that are no numbered answers ================== *)
\* the line consists of decimal digits only
OnlyDigits(line) ==
  line # <<>> /\ \A i \in 1..Len(line) : line[i] \in DigitChars
\* the line is a number followed by separator characters and nothing else
NumberThenSeparators(line) ==
  \E d \in 1..(Len(line) - 1) :
    /\ \A i \in 1..d : line[i] \in DigitChars
    /\ \A i \in (d + 1)..Len(line) : line[i] \in Separators
\* the line does not begin with a number
NoNumber(line) == line # <<>> /\ line[1] \notin DigitChars

(* C33: a non-blank line that does not begin with a number, a line that
   consists of digits only, and a line that is a number followed only by
   separator characters each leave the result of parseNumberedAnswers
   empty. *)
C33_NoEntryWithoutForm ==
  ParsedLine =>
    LET line == Trim(pText)
    IN (NoNumber(line) \/ OnlyDigits(line) \/ NumberThenSeparators(line))
         => pResult = {}

(* ============== the whole result of parseNumberedAnswers =============== *)
\* the lines of the text parsed
LinesOf(text) == SplitLines(text)
\* the result of the line alone
AloneResult(text, i) == parseNumberedAnswers(LinesOf(text)[i])
\* the lines that carry the index k
LinesWith(text, k) ==
  {i \in 1..Len(LinesOf(text)) : MapHas(AloneResult(text, i), k)}
\* the greatest element of a non-empty set of numbers
Last(S) == CHOOSE i \in S : \A j \in S : j <= i

(* C34: parseNumberedAnswers returns a result for every argument: the empty
   map for an argument that is no string and for the empty string, and
   otherwise, for every index that some line carries, the answer of the last
   line that carries it, and no other key. *)
C34_TotalAndLastWins ==
  ppc = "parseNumberedAnswers" =>
    /\ (pType # "string" \/ pText = <<>>) => pResult = {}
    /\ pType = "string" =>
         /\ MapKeys(pResult) =
              UNION {MapKeys(AloneResult(pText, i)) :
                       i \in 1..Len(LinesOf(pText))}
         /\ \A k \in MapKeys(pResult) :
              MapGet(pResult, k) =
                MapGet(AloneResult(pText, Last(LinesWith(pText, k))), k)

C34_Witness ==
  /\ ppc = "parseNumberedAnswers"
  /\ pType = "string"
  /\ pText = <<"1", "a", "\n", "1", "-">>
  /\ pResult = {[key |-> 1, val |-> <<"-">>]}

\* parseNumberedAnswers(null) has returned the empty map
C34_WitnessNull ==
  /\ ppc = "parseNumberedAnswers"
  /\ pType = "null"
  /\ pResult = {}

(* ================ dispatch of the updates of a fetch =================== *)
(* C35: the updates of a fetched batch are dispatched one after the other,
   each once, whether the handler returns or throws, and the cursor is at the
   greatest id of the batch before the first dispatch; so, as long as the
   provider has returned only ids at or above the requested offset, every id
   of a newly fetched batch is greater than every id returned, and hence
   dispatched, before. *)
C35_DispatchedExactlyOnce ==
  /\ [](lpc = "handling" =>
          /\ idx \in 1..Len(batch)
          /\ dispatched = SubSeq(batch, 1, idx)
          /\ Len(handled) = idx - 1
          /\ lastUpdateId = MaxOf(batch))
  /\ [](lpc # "handling" => dispatched \in {<<>>, batch})
  /\ [][(lpc = "handling" /\ lpc' # "handling") =>
          /\ dispatched' = batch
          /\ Len(handled') = Len(batch)]_vars
  /\ [][(lpc = "fetch" /\ lpc' # "fetch" /\ lastFetch' = "success"
           /\ providerOk') =>
          \A i \in 1..Len(batch') : batch'[i] > maxReturned]_vars

C35_Witness ==
  /\ providerOk
  /\ lpc = "handling"
  /\ fetchOffset = 2
  /\ batch = <<2, 3>>
  /\ lastUpdateId = 3
  /\ dispatched = <<2, 3>>
  /\ handled = <<"threw">>

(* ==================== properties of the registration =================== *)
\* a step of POST /send-email-questions up to its answer or its await
RegisterStep ==
  /\ rpc = "idle"
  /\ <<rChat, rStatus, rpc>>' # <<rChat, rStatus, rpc>>

(* C36: when the registration issues the questions message, the state of the
   session is stored already, and the return of that send, successful or
   failed, leaves the stored states as they are. *)
C36_StoredBeforeQuestionsSent ==
  /\ [][regSent' # regSent =>
          \/ /\ rpc = "idle" /\ rpc' = "sending"
             /\ Kinds(regSent') = <<"questions">>
             /\ regSent'[1].chat = rChat'
             /\ regSent'[1].status = "pending"
             /\ MapHas(activeEmails', rChat')
          \/ /\ rpc = "sending" /\ rpc' = "idle"
             /\ regSent'[1].status \in {"ok", "failed"}
             /\ activeEmails' = activeEmails]_vars
  /\ [][(rpc = "sending" /\ rpc' = "idle" /\ rStatus' = 500) =>
          /\ MapHas(activeEmails, rChat) => MapHas(activeEmails', rChat')
          /\ activeEmails' = activeEmails]_vars

C36_Witness ==
  /\ rpc = "idle"
  /\ rStatus = 500
  /\ regSent # <<>>
  /\ regSent[1].status = "failed"
  /\ MapHas(activeEmails, rChat)
  /\ hpc = "idle"

(* C37: a registration is either accepted, and then its session id is
   present, it has at least one question and an email, and its state is
   stored; or it is answered with status 400, and then the stored states are
   unchanged and no message is sent. Every stored state has a session id, at
   least one question and an email. *)
C37_InvalidRegistrationRejected ==
  /\ [][RegisterStep =>
          IF rpc' = "sending"
          THEN /\ ~FalsyId(rChat')
               /\ MapHas(activeEmails', rChat')
               /\ Len(MapGet(activeEmails', rChat').questions) >= 1
               /\ MapGet(activeEmails', rChat').originalEmail # NoEmail
          ELSE /\ rStatus' = 400
               /\ activeEmails' = activeEmails
               /\ regSent' = regSent
               /\ sent' = sent]_vars
  /\ [][(FalsyId(rChat') /\ rChat' # rChat) =>
          /\ rStatus' = 400
          /\ rpc' = "idle"
          /\ activeEmails' = activeEmails
          /\ regSent' = regSent]_vars
  /\ [](\A e \in activeEmails :
          /\ ~FalsyId(e.key)
          /\ Len(e.val.questions) >= 1
          /\ e.val.originalEmail # NoEmail)

C37_Witness ==
  /\ rpc = "idle"
  /\ rStatus = 400
  /\ ~FalsyId(rChat)
  /\ regs = 1
  /\ Cardinality(activeEmails) = 1
  /\ regSent # <<>>
  /\ regSent[1].status = "ok"

(* ================== questions with the same text ======================= *)
\* the positions of pQuestions that have a non-empty answer
Answered ==
  {i \in 1..Len(pQuestions) :
     MapHas(pAnswers, i) /\ MapGet(pAnswers, i) # <<>>}
\* the answered positions that hold the question text q
AnsweredWith(q) == {i \in Answered : pQuestions[i] = q}

(* C38: the result of matchAnswersToQuestions has one entry for each question
   text that has an answered position, holding the answer of the last
   answered position with that text, and no other entry; so it has at most
   as many entries as there are answered positions. *)
C38_LastAnsweredPositionWins ==
  ppc = "matchAnswersToQuestions" =>
    /\ pResult =
         {[key |-> pQuestions[i],
           val |-> MapGet(pAnswers, Last(AnsweredWith(pQuestions[i])))] :
            i \in Answered}
    /\ \A e, f \in pResult : e.key = f.key => e = f
    /\ Cardinality(pResult) <= Cardinality(Answered)

C38_Witness ==
  /\ ppc = "matchAnswersToQuestions"
  /\ pQuestions = <<"Q1", "Q1">>
  /\ pAnswers = {[key |-> 1, val |-> <<"y">>], [key |-> 2, val |-> <<"n">>]}
  /\ pResult = {[key |-> "Q1", val |-> <<"n">>]}

(* ===================== formatting and parsing again ==================== *)
\* the questions were formatted and the text was parsed
RoundTrip == ppc = "formatNumberedQuestions"
\* the map from each position to its question
Positions(questions) ==
  {[key |-> i, val |-> questions[i]] : i \in 1..Len(questions)}

(* C39: for non-empty single-line questions without white space at either
   end, none of which begins with one of the separator characters '.', ':',
   '-' and ')', parsing the formatted list maps each position to its
   question and has no other key. *)
C39_RoundTripWithoutLeadingSeparator ==
  (RoundTrip /\ \A i \in 1..Len(pQuestions) :
                  pQuestions[i][1] \notin Separators)
    => pResult = Positions(pQuestions)

C39_Witness ==
  /\ RoundTrip
  /\ pQuestions = <<<<"a", "-">>, <<"a">>>>
  /\ pText = <<"1", ".", " ", "a", "-", "\n", "2", ".", " ", "a", "\n">>
  /\ pResult = Positions(pQuestions)

\* C39 as stated: every non-empty single-line question without white space
\* at either end
C39_RoundTrip ==
  RoundTrip => pResult = Positions(pQuestions)

====
